---- MODULE Spec2Model ----
(***************************************************************************)
(* Model of backend/scripts/pydantic2ts.py: module discovery, schema       *)
(* unification and cleaning, output post-processing and the orchestrator   *)
(* generate_typescript_defs.                                               *)
(*                                                                         *)
(* Conventions                                                             *)
(*   - Python's None is the string "None" (policies) or the index 0        *)
(*     (start / end in clean_output_file).  Sequences are 1-based here,    *)
(*     so the Python index i is the TLA+ index i + 1.                      *)
(*   - A text line is a record [text, eol]: text is the line without its   *)
(*     terminator, eol the terminator ("" on a last line without one).     *)
(***************************************************************************)
EXTENDS Integers, Sequences, FiniteSets, TLC

(***************************************************************************)
(* Bounds                                                                  *)
(***************************************************************************)
\* longest file handed to clean_output_file
MaxLines == 4

\* deepest nesting of submodules under the root module
MaxDepth == 2

(***************************************************************************)
(* clean_output_file (pydantic2ts.py 147-179)                              *)
(***************************************************************************)
MasterHeader == "export interface _Master_ {"

CloseBrace == "}"

\* the texts a line of a generated file may carry: the aggregate's header,
\* a lone closing brace, an indented closing brace, another declaration
LineTexts == {MasterHeader, CloseBrace, "  }", "export interface A {"}

\* the terminators a line may have on disk
LineEnds == {"\n", "\r\n", ""}

Line == [text : LineTexts, eol : LineEnds]

\* open(output_filename, "r") ... f.readlines(): text mode hands every
\* terminator over as "\n"
readlines(file) ==
  [i \in DOMAIN file |->
     [text |-> file[i].text,
      eol |-> IF file[i].eol = "" THEN "" ELSE "\n"]]

\* line.rstrip("\r\n")
RStripCRLF(line) == line.text

banner_comment_lines ==
  << [text |-> "/* tslint:disable */", eol |-> "\n"],
     [text |-> "/* eslint-disable */", eol |-> "\n"],
     [text |-> "/**", eol |-> "\n"],
     [text |-> "/* This file was automatically generated from pydantic models by running pydantic2ts.", eol |-> "\n"],
     [text |-> "/* Do not modify it by hand - just update the pydantic models and then re-run the script", eol |-> "\n"],
     [text |-> "*/", eol |-> "\n\n"] >>

\* the for loop of lines 159-165, from TLA+ index i on, start being the
\* value the loop has assigned so far (0 for None); yields <<start, end>>
RECURSIVE ScanMarkers(_, _, _)
ScanMarkers(ls, i, start) ==
  IF i > Len(ls) THEN [start |-> start, end |-> 0]
  ELSE IF RStripCRLF(ls[i]) = MasterHeader THEN ScanMarkers(ls, i + 1, i)
  ELSE IF start # 0 /\ RStripCRLF(ls[i]) = CloseBrace THEN [start |-> start, end |-> i]
  ELSE ScanMarkers(ls, i + 1, start)

\* slip: lines[end:] keeps the closing brace of the aggregate
NewLines_KeepsBrace(ls, start, end) ==
  banner_comment_lines \o SubSeq(ls, 1, start - 1) \o SubSeq(ls, end, Len(ls))

\* banner_comment_lines + lines[:start] + lines[(end + 1):]
NewLines(ls, start, end) ==
  banner_comment_lines \o SubSeq(ls, 1, start - 1) \o SubSeq(ls, end + 1, Len(ls))

\* The whole call.  When a marker is missing, new_lines is never bound:
\* open(output_filename, "w") has already truncated the file when
\* f.writelines(new_lines) raises UnboundLocalError.
clean_output_file(ls) ==
  LET m == ScanMarkers(ls, 1, 0) IN
    IF m.start # 0 /\ m.end # 0
    THEN [outcome |-> "returned", content |-> NewLines(ls, m.start, m.end)]
    ELSE [outcome |-> "UnboundLocalError", content |-> << >>]

(***************************************************************************)
(* Declarations                                                            *)
(***************************************************************************)
\* pydantic models (OpenableRecord) and TypedDicts (StructuralRecord), by
\* __name__
Models == {"A", "B"}

TypedDicts == {"T"}

Decls == Models \cup TypedDicts

\* inspect.getmembers yields members sorted by name
DeclOrder == << "A", "B", "T" >>

\* m.model_config.get("extra", None)
PolicyValues == {"None", "allow", "forbid", "ignore"}

\* the names in a list of declarations
Names(list) == {list[i] : i \in DOMAIN list}

(***************************************************************************)
(* generate_schema (pydantic2ts.py 206-246)                                *)
(***************************************************************************)
\* lines 217-219: every listed model not explicitly "allow" becomes "forbid"
OverrideExtras(cfg, pyd_models) ==
  [m \in DOMAIN cfg |->
     IF m \in Names(pyd_models) /\ cfg[m] # "allow" THEN "forbid" ELSE cfg[m]]

\* lines 222-224: read AFTER the override loop has run
AllModelExtras(cfg, pyd_models, typed_dicts) ==
  [i \in 1..Len(pyd_models) |-> cfg[pyd_models[i]]]
    \o [i \in 1..Len(typed_dicts) |-> "None"]

\* lines 244-246: the finally block, pairs i..n of zip(all_models, extras)
RECURSIVE RestoreExtras(_, _, _, _)
RestoreExtras(cfg, all_models, extras, i) ==
  IF i > Len(all_models) \/ i > Len(extras) THEN cfg
  ELSE RestoreExtras(
         IF extras[i] # "None"
         THEN [cfg EXCEPT ![all_models[i]] = extras[i]]
         ELSE cfg,
         all_models, extras, i + 1)

\* declarations reachable from the set S through field references
RECURSIVE Reach(_, _)
Reach(refs, S) ==
  LET T == S \cup UNION {refs[d] : d \in S} IN
    IF T = S THEN S ELSE Reach(refs, T)

\* the definition model_json_schema emits for one declaration, as the
\* docstring of generate_schema (212-215) relies on: a model carries
\* additionalProperties: false under "forbid", true under "allow" and none
\* otherwise (the generated interface then gets "[k: string]: any"); a
\* TypedDict carries none
RawDefinition(d, cfg) ==
  [title |-> d,
   additionalProperties |->
     IF d \in Models
     THEN (CASE cfg[d] = "allow" -> "true"
             [] cfg[d] = "forbid" -> "false"
             [] OTHER -> "absent")
     ELSE "absent"]

\* lines 226-232: create_model("_Master_", one required field per listed
\* name), extra = "forbid", then model_json_schema(): the root object and
\* one $defs entry per declaration reachable from the aggregate
model_json_schema(all_models, refs, cfg) ==
  [title |-> "_Master_",
   additionalProperties |-> "false",
   required |-> Names(all_models),
   defs |-> [d \in Reach(refs, Names(all_models)) |-> RawDefinition(d, cfg)]]

\* lines 192-193 of clean_schema: the openness flag (the per-property
\* title / prefixItems clean-up and the enum description are not part of
\* this model's definitions, which carry no properties)
clean_schema(d, is_typeddict) ==
  IF is_typeddict THEN [d EXCEPT !.additionalProperties = "false"] ELSE d

\* lines 236-239: clean every $defs entry; it counts as a TypedDict when
\* its title is the name of a listed TypedDict
CleanDefs(schema, typed_dicts) ==
  [schema EXCEPT !.defs =
     [k \in DOMAIN schema.defs |->
        clean_schema(schema.defs[k], schema.defs[k].title \in Names(typed_dicts))]]

\* json.dumps(schema, indent=2)
json_dumps(schema) == [format |-> "json", indent |-> 2, value |-> schema]

\* no document: the call raised, or has not run
NoSchema == [format |-> "none"]

\* what create_model / model_json_schema may do inside the try block
BuildOutcomes == {"ok", "create_model raises", "model_json_schema raises"}

\* The whole call: result.config is the model_config of every model when the
\* call returns or propagates its error.
generate_schema(pyd_models, typed_dicts, refs, cfg, build) ==
  LET cfg1 == OverrideExtras(cfg, pyd_models)
      all_models == pyd_models \o typed_dicts
      all_model_extras == AllModelExtras(cfg1, pyd_models, typed_dicts)
      cfg2 == RestoreExtras(cfg1, all_models, all_model_extras, 1)
  IN IF build = "ok"
     THEN [outcome |-> "returned",
           schema |-> json_dumps(CleanDefs(model_json_schema(all_models, refs, cfg1), typed_dicts)),
           config |-> cfg2]
     ELSE [outcome |-> build,
           schema |-> NoSchema,
           config |-> cfg2]

(***************************************************************************)
(* Modules and ModelDiscovery (pydantic2ts.py 49-55, 81-96, 129-144)       *)
(***************************************************************************)
\* A module's __name__ is its dotted path, kept as the sequence of its
\* components: "a.b" is << "a", "b" >>.
PathComponents == << "a", "b", "c", "d", "e" >>

\* the root package and its nested submodules, root first
PackageModule(k) == SubSeq(PathComponents, 1, k)

RootModule == PackageModule(1)

\* a module outside the package, imported by some module of the package
ForeignModule == << "x" >>

PackageModules == {PackageModule(k) : k \in 1..MaxDepth}

ModuleNames == PackageModules \cup {ForeignModule}

\* name.startswith(f"{module_name}.") on dotted names
StartsWithDotted(name, module_name) ==
  /\ Len(name) > Len(module_name)
  /\ SubSeq(name, 1, Len(module_name)) = module_name

\* inspect.ismodule(obj): the member objects this is asked about here are
\* the module-valued attributes, the classes being collected separately
ismodule(obj) == obj \in ModuleNames

\* slip: any module-valued member counts as a submodule
is_submodule_AnyModule(obj, module_name) ==
  ismodule(obj)

\* lines 49-55
is_submodule(obj, module_name) ==
  ismodule(obj) /\ StartsWithDotted(obj, module_name)

\* the declarations of a set, in getmembers' (name) order
InNameOrder(S) == SelectSeq(DeclOrder, LAMBDA d : d \in S)

\* no module loaded yet
NoMembers == [m \in ModuleNames |-> {}]

NoRefs == [d \in Decls |-> {}]

NoConfig == [m \in Models |-> "None"]

(***************************************************************************)
(* State                                                                   *)
(***************************************************************************)
VARIABLES
  pc,              \* position in generate_typescript_defs
  log,             \* the calls made so far, in order
  error,           \* the exception that ended the run, "none" otherwise
  schema_only,     \* parameter
  json2ts_cmd,     \* parameter
  exclude,         \* parameter, as the set of its names
  installed,       \* environment: shutil.which(json2ts_cmd) finds it
  members,         \* module -> its module-valued attributes
  declsIn,         \* module -> the declarations among its attributes
  refs,            \* declaration -> declarations its fields are typed by
  model_config,    \* model -> its "extra" setting
  traversal,       \* which extract_* call is running
  stack,           \* its active recursive calls, outermost first
  found,           \* what it has appended so far
  models,          \* local of generate_typescript_defs
  typed_dicts,     \* local of generate_typescript_defs
  pre_config,      \* model_config as generate_schema was entered
  schema,          \* local of generate_typescript_defs
  schema_dir,      \* the directory of mkdtemp(): "none", "exists", "deleted"
  schema_file,     \* content of schema.json inside it
  json2ts_exit_code,  \* -1 before os.system has returned
  output,          \* content of the output path
  lines            \* local of clean_output_file: what it read

vars == << pc, log, error, schema_only, json2ts_cmd, exclude, installed, members, declsIn,
           refs, model_config, traversal, stack, found, models, typed_dicts,
           pre_config, schema, schema_dir, schema_file, json2ts_exit_code,
           output, lines >>

params == << schema_only, json2ts_cmd, exclude, installed >>

module_state == << members, declsIn, refs >>

walk_state == << traversal, stack, found >>

files == << schema_dir, schema_file, json2ts_exit_code, output, lines >>

\* the output path holds nothing yet
NoFile == [kind |-> "absent"]

TextFile(ls) == [kind |-> "text", lines |-> ls]

SchemaFile(doc) == [kind |-> "schema", doc |-> doc]

NoError == [type |-> "none", exit_code |-> -1]

Exception(type) == [type |-> type, exit_code |-> -1]

\* RuntimeError(f'"{json2ts_cmd}" failed with exit code {json2ts_exit_code}.')
RuntimeError(code) == [type |-> "RuntimeError: json2ts failed with exit code", exit_code |-> code]

Raise(e) == pc' = "raised" /\ error' = e

Called(f) == log' = Append(log, f)

(***************************************************************************)
(* generate_typescript_defs (pydantic2ts.py 268-329), step by step         *)
(***************************************************************************)
\* json2ts_cmd is kept as the sequence of its space-separated words
Commands == { << "json2ts" >>, << "yarn", "json2ts" >> }

\* " " in json2ts_cmd
HasSpace(cmd) == Len(cmd) > 1

\* slip: the test for a space in the command is left out
Json2tsMissing_NoSpaceTest(only, cmd, which) ==
  ~only /\ ~which

\* the condition of line 284, which being the outcome of shutil.which
Json2tsMissing(only, cmd, which) ==
  ~only /\ ~HasSpace(cmd) /\ ~which

\* lines 284-288
CheckJson2ts ==
  /\ pc = "start"
  /\ IF Json2tsMissing(schema_only, json2ts_cmd, installed)
     THEN Raise(Exception("json2ts must be installed"))
     ELSE pc' = "import_models" /\ error' = error
  /\ UNCHANGED << log, params, module_state, model_config, walk_state, models,
                  typed_dicts, pre_config, schema, files >>

\* every reference relation between distinct declarations
AllRefs == {r \in [Decls -> SUBSET Decls] : \A d \in Decls : d \notin r[d]}

\* every module of the package imports every module
FullGraph ==
  [m \in ModuleNames |-> IF m = ForeignModule THEN {} ELSE ModuleNames]

\* A is declared in the root module, the others in the innermost submodule
SplitPlacement ==
  [m \in ModuleNames |->
     IF m = RootModule THEN {"A"}
     ELSE IF m = PackageModule(MaxDepth) THEN Decls \ {"A"}
     ELSE {}]

\* line 292, import_module(module) (lines 22-46): the load fails, or the
\* module and what it declares become known
ImportForModels ==
  /\ pc = "import_models"
  /\ Called("import_module")
  /\ \/ /\ Raise(Exception("import_module raises"))
        /\ UNCHANGED << module_state, model_config >>
     \/ /\ pc' = "extract_models"
        /\ error' = error
        /\ members' = FullGraph
        /\ declsIn' = SplitPlacement
        /\ refs' \in AllRefs
        /\ model_config' \in [Models -> PolicyValues]
  /\ UNCHANGED << params, walk_state, models, typed_dicts, pre_config, schema,
                  files >>

\* line 293, the second import_module(module) of the same path
ImportForTypedDicts ==
  /\ pc = "import_typed_dicts"
  /\ Called("import_module")
  /\ \/ Raise(Exception("import_module raises"))
     \/ pc' = "extract_typed_dicts" /\ error' = error
  /\ UNCHANGED << params, module_state, model_config, walk_state, models,
                  typed_dicts, pre_config, schema, files >>

\* is_concrete_pydantic_model (58-71) / is_typed_dict (74-78) by traversal
Collects(kind, d) ==
  IF kind = "models" THEN d \in Models ELSE d \in TypedDicts

\* lines 136-137 / 88-89: the module's own declarations of the kind
Collected(m, kind) ==
  InNameOrder({d \in declsIn[m] : Collects(kind, d)})

\* lines 139-141 / 91-93: the members the call will recurse into
Submodules(m) == {s \in members[m] : is_submodule(s, m)}

\* one activation of extract_pydantic_models / extract_typed_dicts
Frame(m) == [module |-> m, todo |-> Submodules(m)]

\* the interpreter's recursion limit, scaled to the model
RecursionLimit == MaxDepth + 2

\* lines 292 / 293: the outermost call of the traversal
ExtractCall ==
  /\ pc \in {"extract_models", "extract_typed_dicts"}
  /\ traversal' = (IF pc = "extract_models" THEN "models" ELSE "typed_dicts")
  /\ Called(IF pc = "extract_models" THEN "extract_pydantic_models"
                                     ELSE "extract_typed_dicts")
  /\ stack' = << Frame(RootModule) >>
  /\ found' = Collected(RootModule, traversal')
  /\ pc' = "walk"
  /\ UNCHANGED << error, params, module_state, model_config, models,
                  typed_dicts, pre_config, schema, files >>

\* lines 142 / 94: the recursive call on the next submodule
Recurse ==
  /\ pc = "walk"
  /\ stack # << >>
  /\ Len(stack) < RecursionLimit
  /\ LET top == stack[Len(stack)] IN
       \E s \in top.todo :
         /\ stack' = Append([stack EXCEPT ![Len(stack)].todo = top.todo \ {s}],
                            Frame(s))
         /\ found' = found \o Collected(s, traversal)
  /\ UNCHANGED << pc, log, error, params, module_state, model_config, traversal,
                  models, typed_dicts, pre_config, schema, files >>

\* lines 144 / 96: a call returns; the outermost one hands its list over
Return ==
  /\ pc = "walk"
  /\ stack # << >>
  /\ stack[Len(stack)].todo = {}
  /\ stack' = SubSeq(stack, 1, Len(stack) - 1)
  /\ IF Len(stack) > 1
     THEN UNCHANGED << pc, models, typed_dicts >>
     ELSE IF traversal = "models"
          THEN models' = found /\ pc' = "import_typed_dicts"
                 /\ UNCHANGED typed_dicts
          ELSE typed_dicts' = found /\ pc' = "exclude" /\ UNCHANGED models
  /\ UNCHANGED << log, error, params, module_state, model_config, traversal,
                  found, pre_config, schema, files >>

\* [m for m in list if m.__name__ not in exclude]
NotExcluded(list, excl) == SelectSeq(list, LAMBDA d : d \notin excl)

\* lines 295-297
FilterExcluded ==
  /\ pc = "exclude"
  /\ IF exclude # {}
     THEN /\ models' = NotExcluded(models, exclude)
          /\ typed_dicts' = NotExcluded(typed_dicts, exclude)
     ELSE UNCHANGED << models, typed_dicts >>
  /\ pc' = "generate_schema"
  /\ UNCHANGED << log, error, params, module_state, model_config, walk_state,
                  pre_config, schema, files >>

\* line 301
GenerateSchema ==
  /\ pc = "generate_schema"
  /\ Called("generate_schema")
  /\ pre_config' = model_config
  /\ \E build \in BuildOutcomes :
       LET r == generate_schema(models, typed_dicts, refs, model_config, build) IN
         /\ model_config' = r.config
         /\ schema' = r.schema
         /\ IF r.outcome = "returned"
            THEN pc' = "emit" /\ error' = error
            ELSE Raise(Exception(r.outcome))
  /\ UNCHANGED << params, module_state, walk_state, models, typed_dicts, files >>

\* slip: no return after the schema has been written
SaveSchemaOnly_FallsThrough ==
  /\ pc = "emit"
  /\ schema_only
  /\ Called("write_output")
  /\ output' = SchemaFile(schema)
  /\ schema_dir' = "exists"
  /\ pc' = "write_schema"
  /\ UNCHANGED << error, params, module_state, model_config, walk_state, models,
                  typed_dicts, pre_config, schema, schema_file,
                  json2ts_exit_code, lines >>

\* lines 303-307
SaveSchemaOnly ==
  /\ pc = "emit"
  /\ schema_only
  /\ Called("write_output")
  /\ \/ output' = SchemaFile(schema) /\ pc' = "done" /\ error' = error
     \/ Raise(Exception("OSError")) /\ UNCHANGED output
  /\ UNCHANGED << params, module_state, model_config, walk_state, models,
                  typed_dicts, pre_config, schema, schema_dir, schema_file,
                  json2ts_exit_code, lines >>

\* lines 309-310
MakeSchemaDir ==
  /\ pc = "emit"
  /\ ~schema_only
  /\ Called("mkdtemp")
  /\ \/ schema_dir' = "exists" /\ pc' = "write_schema" /\ error' = error
     \/ Raise(Exception("OSError")) /\ UNCHANGED schema_dir
  /\ UNCHANGED << params, module_state, model_config, walk_state, models,
                  typed_dicts, pre_config, schema, schema_file,
                  json2ts_exit_code, output, lines >>

\* lines 312-313
WriteSchemaFile ==
  /\ pc = "write_schema"
  /\ Called("write_schema_file")
  /\ \/ schema_file' = schema /\ pc' = "json2ts" /\ error' = error
     \/ Raise(Exception("OSError")) /\ UNCHANGED schema_file
  /\ UNCHANGED << params, module_state, model_config, walk_state, models,
                  typed_dicts, pre_config, schema, schema_dir,
                  json2ts_exit_code, output, lines >>

\* what os.system may return
ExitCodes == {0, 256}

TextLine(t) == [text |-> t, eol |-> "\n"]

\* files the converter may leave at the output path: the usual one, one
\* without the aggregate, one whose aggregate block is never closed
ConverterOutputs ==
  { << TextLine("export interface A {"), TextLine(CloseBrace),
       TextLine(MasterHeader), TextLine(CloseBrace) >>,
    << TextLine("export interface A {"), TextLine(CloseBrace) >>,
    << TextLine(MasterHeader) >> }

\* lines 317-319
RunJson2ts ==
  /\ pc = "json2ts"
  /\ Called("json2ts")
  /\ \E code \in ExitCodes :
       /\ json2ts_exit_code' = code
       /\ IF code = 0
          THEN \E ls \in ConverterOutputs : output' = TextFile(ls)
          ELSE UNCHANGED output
  /\ pc' = "rmtree"
  /\ UNCHANGED << error, params, module_state, model_config, walk_state, models,
                  typed_dicts, pre_config, schema, schema_dir, schema_file,
                  lines >>

\* slip: the exit code is not looked at
RemoveSchemaDir_IgnoresExit ==
  /\ pc = "rmtree"
  /\ Called("rmtree")
  /\ schema_dir' = "deleted"
  /\ schema_file' = NoSchema
  /\ pc' = (IF output.kind = "text" THEN "clean_output_file" ELSE "done")
  /\ UNCHANGED << error, params, module_state, model_config, walk_state, models,
                  typed_dicts, pre_config, schema, json2ts_exit_code, output,
                  lines >>

\* lines 321-329, up to the call of clean_output_file
RemoveSchemaDir ==
  /\ pc = "rmtree"
  /\ Called("rmtree")
  /\ schema_dir' = "deleted"
  /\ schema_file' = NoSchema
  /\ IF json2ts_exit_code = 0
     THEN pc' = "clean_output_file" /\ error' = error
     ELSE Raise(RuntimeError(json2ts_exit_code))
  /\ UNCHANGED << params, module_state, model_config, walk_state, models,
                  typed_dicts, pre_config, schema, json2ts_exit_code, output,
                  lines >>

\* line 324, the whole of clean_output_file (147-179)
CleanOutputFile ==
  /\ pc = "clean_output_file"
  /\ output.kind = "text"
  /\ Called("clean_output_file")
  /\ lines' = readlines(output.lines)
  /\ LET r == clean_output_file(lines') IN
       /\ output' = TextFile(r.content)
       /\ IF r.outcome = "returned"
          THEN pc' = "done" /\ error' = error
          ELSE Raise(Exception(r.outcome))
  /\ UNCHANGED << params, module_state, model_config, walk_state, models,
                  typed_dicts, pre_config, schema, schema_dir, schema_file,
                  json2ts_exit_code >>

(***************************************************************************)
(* Specifications                                                          *)
(***************************************************************************)
NothingLoaded ==
  /\ members = NoMembers
  /\ declsIn = NoMembers
  /\ refs = NoRefs
  /\ model_config = NoConfig

NotWalking == traversal = "none" /\ stack = << >> /\ found = << >>

NoFiles ==
  /\ schema_dir = "none"
  /\ schema_file = NoSchema
  /\ json2ts_exit_code = -1
  /\ output = NoFile
  /\ lines = << >>

\* a run of generate_typescript_defs
Init ==
  /\ pc = "start"
  /\ log = << >>
  /\ error = NoError
  /\ schema_only \in BOOLEAN
  /\ json2ts_cmd \in Commands
  /\ exclude \in SUBSET Decls
  /\ installed \in BOOLEAN
  /\ NothingLoaded
  /\ NotWalking
  /\ models = << >>
  /\ typed_dicts = << >>
  /\ pre_config = NoConfig
  /\ schema = NoSchema
  /\ NoFiles

Next ==
  \/ CheckJson2ts
  \/ ImportForModels
  \/ ImportForTypedDicts
  \/ ExtractCall
  \/ Recurse
  \/ Return
  \/ FilterExcluded
  \/ GenerateSchema
  \/ SaveSchemaOnly
  \/ MakeSchemaDir
  \/ WriteSchemaFile
  \/ RunJson2ts
  \/ RemoveSchemaDir
  \/ CleanOutputFile

Spec == Init /\ [][Next]_vars

\* every module graph of the package: a module may hold any module as an
\* attribute, itself and its ancestors included
Graphs ==
  {g \in [ModuleNames -> SUBSET ModuleNames] : g[ForeignModule] = {}}

\* every declaration is an attribute of exactly one module
Placements ==
  {[m \in ModuleNames |-> {d \in Decls : h[d] = m}] : h \in [Decls -> ModuleNames]}

\* the two traversals of lines 292-293 over an imported module
InitDiscovery ==
  /\ pc = "extract_models"
  /\ log = << "import_module" >>
  /\ error = NoError
  /\ schema_only = FALSE
  /\ json2ts_cmd = << "json2ts" >>
  /\ exclude = {}
  /\ installed = TRUE
  /\ members \in Graphs
  /\ declsIn \in Placements
  /\ refs = NoRefs
  /\ model_config = NoConfig
  /\ NotWalking
  /\ models = << >>
  /\ typed_dicts = << >>
  /\ pre_config = NoConfig
  /\ schema = NoSchema
  /\ NoFiles

NextDiscovery ==
  \/ ExtractCall
  \/ Recurse
  \/ Return
  \/ ImportForTypedDicts

SpecDiscovery == InitDiscovery /\ [][NextDiscovery]_vars

\* every list over S without more entries than S has names
ListsOver(S) == UNION {[1..n -> S] : n \in 0..Cardinality(S)}

\* a call of generate_schema on any two lists
InitSchema ==
  /\ pc = "generate_schema"
  /\ log = << >>
  /\ error = NoError
  /\ schema_only = FALSE
  /\ json2ts_cmd = << "json2ts" >>
  /\ exclude = {}
  /\ installed = TRUE
  /\ members = NoMembers
  /\ declsIn = NoMembers
  /\ refs \in AllRefs
  /\ model_config \in [Models -> PolicyValues]
  /\ NotWalking
  /\ models \in ListsOver(Models)
  /\ typed_dicts \in ListsOver(TypedDicts)
  /\ pre_config = NoConfig
  /\ schema = NoSchema
  /\ NoFiles

NextSchema == GenerateSchema

SpecSchema == InitSchema /\ [][NextSchema]_vars

\* every file of at most MaxLines lines; only its last line may lack a
\* terminator
Files ==
  UNION {{f \in [1..n -> Line] : \A i \in 1..(n - 1) : f[i].eol # ""} :
           n \in 0..MaxLines}

\* a call of clean_output_file on any file
InitClean ==
  /\ pc = "clean_output_file"
  /\ log = << >>
  /\ error = NoError
  /\ schema_only = FALSE
  /\ json2ts_cmd = << "json2ts" >>
  /\ exclude = {}
  /\ installed = TRUE
  /\ NothingLoaded
  /\ NotWalking
  /\ models = << >>
  /\ typed_dicts = << >>
  /\ pre_config = NoConfig
  /\ schema = NoSchema
  /\ schema_dir = "none"
  /\ schema_file = NoSchema
  /\ json2ts_exit_code = -1
  /\ output \in {TextFile(ls) : ls \in Files}
  /\ lines = << >>

NextClean == CleanOutputFile

SpecClean == InitClean /\ [][NextClean]_vars

(***************************************************************************)
(* Properties                                                              *)
(***************************************************************************)
HasCalled(f) == \E i \in DOMAIN log : log[i] = f

RunEnded == pc \in {"done", "raised"}

\* C1: once generate_schema has returned or raised, the extra setting of
\* every model is the one it had when the call was entered, "None" (not
\* set) included.
C1_ExtrasRestored ==
  HasCalled("generate_schema") => model_config = pre_config

\* C2: a declaration named in exclude is in neither list handed to
\* generate_schema, and its name is no key of the definitions of the
\* document generate_schema returns to generate_typescript_defs.
C2_ExcludedAbsent ==
  \A d \in exclude :
    /\ (pc = "generate_schema" \/ HasCalled("generate_schema"))
         => d \notin Names(models) \cup Names(typed_dicts)
    /\ schema # NoSchema => d \notin DOMAIN schema.value.defs

\* C3: in the document generate_schema returns, the definition of every
\* TypedDict is closed, the definition of every model whose extra setting
\* was unset or "forbid" is closed, and the definition of every model whose
\* setting was "allow" is open.
C3_OpennessByKind ==
  schema # NoSchema =>
    \A k \in DOMAIN schema.value.defs :
      LET flag == schema.value.defs[k].additionalProperties IN
        /\ k \in TypedDicts => flag = "false"
        /\ (k \in Models /\ pre_config[k] \in {"None", "forbid"}) => flag = "false"
        /\ (k \in Models /\ pre_config[k] = "allow") => flag = "true"

IsHeader(l) == l.text = MasterHeader

IsClose(l) == l.text = CloseBrace

\* the header occurs and a line that is exactly "}" occurs after it
HasMarkers(ls) ==
  \E i, j \in DOMAIN ls : i < j /\ IsHeader(ls[i]) /\ IsClose(ls[j])

FirstHeader(ls) ==
  CHOOSE i \in DOMAIN ls :
    IsHeader(ls[i]) /\ \A j \in 1..(i - 1) : ~IsHeader(ls[j])

FirstCloseAfter(ls, s) ==
  CHOOSE i \in (s + 1)..Len(ls) :
    IsClose(ls[i]) /\ \A j \in (s + 1)..(i - 1) : ~IsClose(ls[j])

LastHeaderBefore(ls, e) ==
  CHOOSE i \in 1..(e - 1) :
    IsHeader(ls[i]) /\ \A j \in (i + 1)..(e - 1) : ~IsHeader(ls[j])

\* the file without its lines s..e, under the banner
Excised(ls, s, e) ==
  TextFile(banner_comment_lines \o [i \in 1..(s - 1) |-> ls[i]]
             \o [i \in 1..(Len(ls) - e) |-> ls[e + i]])

\* C4 as stated: when the file has the header and a later "}", it is
\* rewritten to the banner, the lines before start and the lines after end,
\* start being the FIRST header line and end the first "}" after it.
C4_FirstHeaderExcised ==
  (HasCalled("clean_output_file") /\ HasMarkers(lines)) =>
    LET start == FirstHeader(lines)
        end == FirstCloseAfter(lines, start)
    IN output = Excised(lines, start, end)

\* C4 amended: as above, but start is the LAST header line before end, end
\* being the first "}" after the first header line.
C4_LastHeaderExcised ==
  (HasCalled("clean_output_file") /\ HasMarkers(lines)) =>
    LET end == FirstCloseAfter(lines, FirstHeader(lines))
        start == LastHeaderBefore(lines, end)
    IN /\ pc = "done"
       /\ output = Excised(lines, start, end)

\* a file with the aggregate block in its middle has been rewritten
C4_Witness ==
  /\ HasCalled("clean_output_file")
  /\ HasMarkers(lines)
  /\ FirstHeader(lines) > 1
  /\ FirstCloseAfter(lines, FirstHeader(lines)) < Len(lines)
  /\ pc = "done"

\* C5: when the header is absent, or no "}" follows it, clean_output_file
\* completes without an error and leaves the file as it was, without banner.
C5_SilentNoOp ==
  (HasCalled("clean_output_file") /\ ~HasMarkers(lines)) =>
    /\ pc = "done"
    /\ error = NoError
    /\ output = TextFile(lines)

\* C6: without schema_only, with a command without a space that cannot be
\* found, the run ends with the fatal error before the module is resolved
\* and before any discovery or schema generation; with schema_only or a
\* space in the command the availability check never ends the run.
C6_EagerAvailabilityCheck ==
  /\ (~schema_only /\ ~HasSpace(json2ts_cmd) /\ ~installed /\ pc # "start") =>
       /\ pc = "raised"
       /\ error = Exception("json2ts must be installed")
       /\ log = << >>
       /\ NothingLoaded
       /\ models = << >> /\ typed_dicts = << >>
       /\ schema = NoSchema
  /\ (schema_only \/ HasSpace(json2ts_cmd)) =>
       error # Exception("json2ts must be installed")

C6_Witness ==
  /\ pc = "raised"
  /\ error = Exception("json2ts must be installed")
  /\ ~installed

\* the errors raised by the steps that precede the converter
EarlierFailures ==
  {"json2ts must be installed", "import_module raises", "create_model raises",
   "model_json_schema raises", "OSError"}

\* C7: clean_output_file is applied to the output path iff the converter was
\* invoked and exited with 0; a non-zero exit ends the run with the fatal
\* error carrying that code and without post-processing; a failure of any
\* earlier step means the converter is never invoked.
C7_PostProcessIffExitZero ==
  /\ HasCalled("clean_output_file") =>
       (HasCalled("json2ts") /\ json2ts_exit_code = 0)
  /\ (RunEnded /\ HasCalled("json2ts") /\ json2ts_exit_code = 0) =>
       HasCalled("clean_output_file")
  /\ (RunEnded /\ HasCalled("json2ts") /\ json2ts_exit_code # 0) =>
       /\ pc = "raised"
       /\ error = RuntimeError(json2ts_exit_code)
       /\ ~HasCalled("clean_output_file")
  /\ (pc = "raised" /\ error.type \in EarlierFailures) =>
       (~HasCalled("json2ts") /\ json2ts_exit_code = -1)

C7_Witness ==
  /\ pc = "raised"
  /\ HasCalled("json2ts")
  /\ json2ts_exit_code = 256
  /\ ~HasCalled("clean_output_file")

\* C8: in a run that creates the temporary schema directory, the directory
\* has been deleted by the time the run ends, successfully or not.
C8_SchemaDirDeleted ==
  (RunEnded /\ schema_dir # "none") => schema_dir = "deleted"

\* C9: with schema_only, the run writes the cleaned serialized document to
\* the output path and returns; no temporary directory is created, the
\* converter is never invoked, clean_output_file is never applied.
C9_SchemaOnlyShortCircuit ==
  schema_only =>
    /\ schema_dir = "none"
    /\ ~HasCalled("mkdtemp")
    /\ ~HasCalled("json2ts") /\ json2ts_exit_code = -1
    /\ ~HasCalled("clean_output_file")
    /\ pc \notin {"write_schema", "json2ts", "rmtree", "clean_output_file"}
    /\ HasCalled("write_output") => RunEnded
    /\ pc = "done" =>
         /\ schema.format = "json"
         /\ output = [kind |-> "schema", doc |-> schema]
         /\ \A k \in DOMAIN schema.value.defs :
              k \in Names(typed_dicts) =>
                schema.value.defs[k].additionalProperties = "false"

C9_Witness ==
  /\ schema_only
  /\ pc = "done"
  /\ output.kind = "schema"
  /\ DOMAIN output.doc.value.defs # {}

\* the modules the traversal from the root calls itself on
RECURSIVE Visited(_)
Visited(S) ==
  LET T == S \cup UNION {Submodules(m) : m \in S} IN
    IF T = S THEN S ELSE Visited(T)

\* some visited module has, among its direct members, a module the
\* traversal went through on its way to it
HasBackReference ==
  \E a \in Visited({RootModule}) :
    \E m \in Visited(Submodules(a)) : a \in members[m]

ModelsTraversalReturned ==
  pc \in {"import_typed_dicts", "extract_typed_dicts", "exclude"}
    \/ (pc = "walk" /\ traversal = "typed_dicts")

\* C10 as stated: when a visited module holds one of its ancestors in the
\* traversal as a member, the traversal never returns.
C10_CycleNeverReturns ==
  HasBackReference => ~ModelsTraversalReturned

\* C10 amended: there is no cycle detection, but a member that is an
\* ancestor is never recursed into: every active call is on a module whose
\* name strictly extends its caller's, no call is pending on a module of
\* the active chain, and the depth never exceeds the nesting of the names.
C10_AncestorsNeverReentered ==
  /\ Len(stack) <= MaxDepth
  /\ \A i \in 1..Len(stack) :
       /\ i > 1 => StartsWithDotted(stack[i].module, stack[i - 1].module)
       /\ \A j \in 1..i : stack[j].module \notin stack[i].todo

C10_Witness ==
  /\ HasBackReference
  /\ pc = "exclude"
  /\ models # << >>
  /\ typed_dicts # << >>

====
